---- MODULE Spec2Model ----
(***************************************************************************)
(* BLSCache (chia-bls, cached_bls.rs): a bounded LRU cache of pairing      *)
(* results keyed by SHA-256(pk || msg), with get_pairings and              *)
(* aggregate_verify on top of it.                                          *)
(*                                                                         *)
(* Curve arithmetic is modelled in a small cyclic group: a G1 or G2 point  *)
(* is its discrete logarithm in Scalars, GT is Scalars under addition      *)
(* modulo R, and the pairing of b*g2 with a*g1 is a*b.                     *)
(***************************************************************************)
EXTENDS Integers, Sequences, FiniteSets, TLC

\* ---------------------------------------------------------------- bounds
\* largest capacity a cache is constructed with
MaxCap == 2
\* largest number of (key, message) pairs in one batch
MaxBatch == 2
MaxScan == 3

\* ------------------------------------------------------- curve primitives
Scalars == 0 .. 2
R == Cardinality(Scalars)

\* Option::None of a GTElement / of a PublicKey
NoneGT == -1
NonePk == [some |-> FALSE, s |-> 0, on_g1 |-> FALSE]
SomePk(s, g) == [some |-> TRUE, s |-> s, on_g1 |-> g]

\* public-key byte strings presented to the cache (2 model bytes for the 48):
\* byte 1 carries the compression marker 0x80, byte 2 selects the point
PkBytes == {<<128, 1>>, <<128, 2>>, <<0, 1>>}
\* message byte strings
Msgs == {<<1>>, <<2>>}

\* blst_p1_uncompress: with the infinity flag 0x40 only the all-zero rest
\* decodes (to the identity); else the x coordinates 1, 2 decode to points of
\* G1, 3, 4 to points of the curve outside G1, and no other x is on the curve
blst_p1_uncompress(bytes) ==
    IF (bytes[1] \div 64) % 2 # 0
    THEN IF bytes[2] = 0 THEN SomePk(0, TRUE) ELSE NonePk
    ELSE IF bytes[2] \in {1, 2} THEN SomePk(bytes[2], TRUE)
    ELSE IF bytes[2] \in {3, 4} THEN SomePk(bytes[2] - 2, FALSE)
    ELSE NonePk

from_bytes(bytes) ==
    IF (bytes[1] \div 128) % 2 # 0
    THEN blst_p1_uncompress(bytes)
    ELSE NonePk

\* parse without the subgroup check
from_bytes_unchecked(bytes) ==
    IF (bytes[1] \div 128) % 2 # 0
    THEN blst_p1_uncompress(bytes)
    ELSE NonePk

\* the G1 generator
generator == SomePk(1, TRUE)

\* Signature: a G2 point, valid when it is in the prime-order subgroup
Sigs == [s : Scalars, valid : {TRUE}] \cup {[s |-> 1, valid |-> FALSE]}

RECURSIVE SumBytes(_)
SumBytes(bytes) ==
    IF bytes = <<>> THEN 0 ELSE Head(bytes) + SumBytes(Tail(bytes))

\* hash_to_g2: deterministic map of the augmented message to a G2 point
hash_to_g2(aug_msg) == 1 + (SumBytes(aug_msg) % (R - 1))

\* aug_hash.pair(pk) and sig.pair(generator): the bilinear pairing
pair(g2, pk) == (g2 * pk.s) % R

\* GTElement MulAssign
gt_mul(a, b) == (a + b) % R
gt_one == 0

\* Sha256: hasher.update absorbs the bytes in order, finalize is injective on
\* the byte strings of the model
RECURSIVE hasher_update(_, _)
hasher_update(h, bytes) ==
    IF bytes = <<>> THEN h
    ELSE hasher_update(h * 256 + Head(bytes), Tail(bytes))
Sha256_new == 1
hasher_finalize(h) == h

\* ---------------------------------------------------------------- LruCache
\* the cache is a sequence of entries [k, v], most recently used first

RECURSIVE index_of(_, _, _)
index_of(c, h, i) ==
    IF i > Len(c) THEN 0
    ELSE IF c[i].k = h THEN i
    ELSE index_of(c, h, i + 1)

contains(c, h) == index_of(c, h, 1) # 0

remove_at(c, i) == SubSeq(c, 1, i - 1) \o SubSeq(c, i + 1, Len(c))

\* fault: the value of the front entry is returned for any key found
lru_peek_front(c, h) ==
    IF contains(c, h) THEN c[1].v ELSE NoneGT

\* fault: a hit removes the entry (pop in place of get)
lru_get_pop(c, h) ==
    LET i == index_of(c, h, 1)
    IN  IF i = 0 THEN c ELSE remove_at(c, i)

\* fault: a hit leaves the recency order alone (peek in place of get)
lru_get_no_promote(c, h) == c

\* LruCache::get: the value (or None), the entry moved to most recently used
lru_peek(c, h) ==
    IF contains(c, h) THEN c[index_of(c, h, 1)].v ELSE NoneGT

lru_get(c, h) ==
    LET i == index_of(c, h, 1)
    IN  IF i = 0 THEN c ELSE <<c[i]>> \o remove_at(c, i)

\* fault: eviction starts one entry too late
lru_put_late_evict(c, cap, h, v) ==
    LET i == index_of(c, h, 1)
    IN  IF i # 0 THEN <<[k |-> h, v |-> v]>> \o remove_at(c, i)
        ELSE IF Len(c) > cap
             THEN <<[k |-> h, v |-> v]>> \o SubSeq(c, 1, cap - 1)
             ELSE <<[k |-> h, v |-> v]>> \o c

\* fault: a full cache evicts its most recently used entry
lru_put_evict_newest(c, cap, h, v) ==
    LET i == index_of(c, h, 1)
    IN  IF i # 0 THEN <<[k |-> h, v |-> v]>> \o remove_at(c, i)
        ELSE IF Len(c) >= cap
             THEN <<[k |-> h, v |-> v]>> \o SubSeq(c, 2, Len(c))
             ELSE <<[k |-> h, v |-> v]>> \o c

\* fault: a key that is present gets a second entry
lru_put_twice(c, cap, h, v) ==
    IF Len(c) >= cap
    THEN <<[k |-> h, v |-> v]>> \o SubSeq(c, 1, cap - 1)
    ELSE <<[k |-> h, v |-> v]>> \o c

\* fault: a full cache is emptied to make room
lru_put_flush(c, cap, h, v) ==
    LET i == index_of(c, h, 1)
    IN  IF i # 0 THEN <<[k |-> h, v |-> v]>> \o remove_at(c, i)
        ELSE IF Len(c) >= cap
             THEN <<[k |-> h, v |-> v]>>
             ELSE <<[k |-> h, v |-> v]>> \o c

\* fault: a full cache evicts nothing
lru_put_no_evict(c, cap, h, v) ==
    LET i == index_of(c, h, 1)
    IN  IF i # 0 THEN <<[k |-> h, v |-> v]>> \o remove_at(c, i)
        ELSE <<[k |-> h, v |-> v]>> \o c

\* LruCache::put: update and promote an existing key, else insert as most
\* recently used, evicting the least recently used entry of a full cache
lru_put(c, cap, h, v) ==
    LET i == index_of(c, h, 1)
    IN  IF i # 0 THEN <<[k |-> h, v |-> v]>> \o remove_at(c, i)
        ELSE IF Len(c) >= cap
             THEN <<[k |-> h, v |-> v]>> \o SubSeq(c, 1, cap - 1)
             ELSE <<[k |-> h, v |-> v]>> \o c

\* blst_p1_affine_is_inf, blst_p1_affine_in_g1
blst_p1_affine_is_inf(pk) == pk.on_g1 /\ pk.s = 0
blst_p1_affine_in_g1(pk) == pk.on_g1

\* PublicKey::to_bytes: compress the point
to_bytes(pk) ==
    IF blst_p1_affine_is_inf(pk) THEN <<192, 0>>
    ELSE IF pk.on_g1 THEN <<128, pk.s>>
    ELSE <<128, pk.s + 2>>

\* ------------------------------------------------------------ get_pairings
Min(a, b) == IF a < b THEN a ELSE b

\* pks.iter().zip(msgs.iter()) stops at the shorter sequence
zip_len(pks, msgs) == Min(Len(pks), Len(msgs))

\* fault: the scan feeds the message to the hasher before the key
scan_key_swapped(pk, msg) ==
    hasher_finalize(hasher_update(hasher_update(Sha256_new, msg), pk))

\* first loop: hasher.update(pk); hasher.update(msg); finalize
scan_key(pk, msg) ==
    hasher_finalize(hasher_update(hasher_update(Sha256_new, pk), msg))

\* second loop: aug_msg = pk + msg; hasher.update(&aug_msg); finalize
put_key(aug_msg) == hasher_finalize(hasher_update(Sha256_new, aug_msg))

\* fault: the heuristic counts and aborts whatever force_cache says
counts_ignore_force(force_cache, pairing) == pairing # NoneGT

\* the condition under which the heuristic counter is incremented
counts(force_cache, pairing) == ~force_cache /\ pairing # NoneGT

\* fault: the scan gives up as soon as half of the pairs were counted
over_half_at_half(missing_count, pks) == missing_count >= Len(pks) \div 2

\* missing_count > pks.len() / 2
over_half(missing_count, pks) == missing_count > Len(pks) \div 2

\* first loop of get_pairings, from position i on
RECURSIVE scan(_, _, _, _, _, _, _)
scan(c, pks, msgs, force_cache, i, missing_count, pairings) ==
    IF i > zip_len(pks, msgs)
    THEN [cache |-> c, pairings |-> pairings, aborted |-> FALSE,
          missing_count |-> missing_count]
    ELSE LET h == scan_key(pks[i], msgs[i])
             pairing == lru_peek(c, h)
             c1 == lru_get(c, h)
             cnt == IF counts(force_cache, pairing)
                    THEN missing_count + 1 ELSE missing_count
         IN  IF counts(force_cache, pairing) /\ over_half(cnt, pks)
             THEN [cache |-> c1, pairings |-> <<>>, aborted |-> TRUE,
                   missing_count |-> cnt]
             ELSE scan(c1, pks, msgs, force_cache, i + 1, cnt,
                       Append(pairings, pairing))

\* pk_bytes_to_g1.entry(pk).or_insert_with(|| from_bytes(pk).unwrap())
memo_get(pk_bytes_to_g1, pk) ==
    IF pk \in DOMAIN pk_bytes_to_g1 THEN pk_bytes_to_g1[pk] ELSE from_bytes(pk)

memo_put(pk_bytes_to_g1, pk, parsed) ==
    [b \in DOMAIN pk_bytes_to_g1 \cup {pk} |->
        IF b = pk THEN parsed ELSE pk_bytes_to_g1[b]]

\* a cached pairing is pushed as it was read in the first loop
push_hit(ret, pairing) == Append(ret, pairing)

\* fault: computed pairings are collected ahead of the cached ones
push_miss_front(ret, pairing) == <<pairing>> \o ret

\* a computed pairing is pushed at the position of its pair
push_miss(ret, pairing) == Append(ret, pairing)

\* second loop of get_pairings, from position i on; the unwrap of a key that
\* from_bytes rejects panics and leaves the insertions made so far in place
RECURSIVE fill(_, _, _, _, _, _, _, _)
fill(c, cap, pks, msgs, pairings, i, pk_bytes_to_g1, ret) ==
    IF i > Len(pairings)
    THEN [cache |-> c, ret |-> ret, panic |-> FALSE]
    ELSE IF pairings[i] # NoneGT
    THEN fill(c, cap, pks, msgs, pairings, i + 1, pk_bytes_to_g1,
              push_hit(ret, pairings[i]))
    ELSE LET aug_msg == pks[i] \o msgs[i]
             aug_hash == hash_to_g2(aug_msg)
             pk_parsed == memo_get(pk_bytes_to_g1, pks[i])
         IN  IF ~pk_parsed.some
             THEN [cache |-> c, ret |-> <<>>, panic |-> TRUE]
             ELSE LET pairing == pair(aug_hash, pk_parsed)
                      h == put_key(aug_msg)
                  IN  fill(lru_put(c, cap, h, pairing), cap, pks, msgs,
                           pairings, i + 1,
                           memo_put(pk_bytes_to_g1, pks[i], pk_parsed),
                           push_miss(ret, pairing))

get_pairings(c, cap, pks, msgs, force_cache) ==
    LET s == scan(c, pks, msgs, force_cache, 1, 0, <<>>)
    IN  IF s.aborted
        THEN [cache |-> s.cache, ret |-> <<>>, panic |-> FALSE, aborted |-> TRUE,
              missing_count |-> s.missing_count]
        ELSE LET f == fill(s.cache, cap, pks, msgs, s.pairings, 1, <<>>, <<>>)
             IN  [cache |-> f.cache, ret |-> f.ret, panic |-> f.panic,
                  aborted |-> FALSE, missing_count |-> s.missing_count]

\* -------------------------------------------------------- aggregate_verify
\* the product of the pairings of all (key, message) pairs of data
RECURSIVE pairing_product(_)
pairing_product(data) ==
    IF data = <<>> THEN gt_one
    ELSE gt_mul(pair(hash_to_g2(to_bytes(Head(data).pk) \o Head(data).msg),
                     Head(data).pk),
                pairing_product(Tail(data)))

\* the stateless batch verifier
agg_ver(sig, data) == pairing_product(data) = pair(sig.s, generator)

\* data of the fallback: from_bytes_unchecked(pk).unwrap() of every zipped pair
RECURSIVE unchecked_data(_, _, _)
unchecked_data(pks, msgs, i) ==
    IF i > zip_len(pks, msgs) THEN <<>>
    ELSE <<[pk |-> from_bytes_unchecked(pks[i]), msg |-> msgs[i]]>>
         \o unchecked_data(pks, msgs, i + 1)

fallback(pks, msgs, sig) ==
    LET data == unchecked_data(pks, msgs, 1)
    IN  IF \E i \in DOMAIN data : ~data[i].pk.some
        THEN [panic |-> TRUE, result |-> FALSE]
        ELSE [panic |-> FALSE, result |-> agg_ver(sig, data)]

\* for p in pairings.iter() { prod *= p }
RECURSIVE mul_all(_, _)
mul_all(prod, rest) ==
    IF rest = <<>> THEN prod
    ELSE mul_all(gt_mul(prod, Head(rest)), Tail(rest))

\* fault: the popped pairing is left out of the product
product_of_rest(pairings) ==
    mul_all(gt_one, SubSeq(pairings, 1, Len(pairings) - 1))

\* prod = pairings.pop(), multiplied by the pairings left in the list
product_of(pairings) ==
    mul_all(pairings[Len(pairings)], SubSeq(pairings, 1, Len(pairings) - 1))

\* fault: a verification that fails on the cached path puts the cache back
\* as it was before the call
aggregate_verify_undo(c, cap, pks, msgs, sig, force_cache) ==
    LET gp == get_pairings(c, cap, pks, msgs, force_cache)
    IN  IF gp.panic
        THEN [cache |-> gp.cache, gp |-> gp, path |-> "cached",
              panic |-> TRUE, result |-> FALSE]
        ELSE IF gp.ret = <<>>
        THEN LET fb == fallback(pks, msgs, sig)
             IN  [cache |-> gp.cache, gp |-> gp, path |-> "fallback",
                  panic |-> fb.panic, result |-> fb.result]
        ELSE IF product_of(gp.ret) = pair(sig.s, generator)
        THEN [cache |-> gp.cache, gp |-> gp, path |-> "cached",
              panic |-> FALSE, result |-> TRUE]
        ELSE [cache |-> c, gp |-> gp, path |-> "cached",
              panic |-> FALSE, result |-> FALSE]

aggregate_verify(c, cap, pks, msgs, sig, force_cache) ==
    LET gp == get_pairings(c, cap, pks, msgs, force_cache)
    IN  IF gp.panic
        THEN [cache |-> gp.cache, gp |-> gp, path |-> "cached",
              panic |-> TRUE, result |-> FALSE]
        ELSE IF gp.ret = <<>>
        THEN LET fb == fallback(pks, msgs, sig)
             IN  [cache |-> gp.cache, gp |-> gp, path |-> "fallback",
                  panic |-> fb.panic, result |-> fb.result]
        ELSE IF Len(gp.ret) > 0
        THEN [cache |-> gp.cache, gp |-> gp, path |-> "cached",
              panic |-> FALSE,
              result |-> (product_of(gp.ret) = pair(sig.s, generator))]
        ELSE [cache |-> gp.cache, gp |-> gp, path |-> "empty",
              panic |-> FALSE, result |-> TRUE]

\* ------------------------------------------------------------------- state
VARIABLES
    capacity,   \* the NonZeroUsize the LruCache was constructed with
    cache,      \* the LruCache, most recently used entry first
    last,       \* the last call: its arguments, the cache before it, its outcome
    run         \* the calls so far, while each was a returning single-pair
                \* aggregate_verify with force_cache on a pair not seen before

vars == <<capacity, cache, last, run>>

NoSig == [s |-> 0, valid |-> TRUE]

NoCall ==
    [op |-> "none", pks |-> <<>>, msgs |-> <<>>, sig |-> NoSig,
     force_cache |-> FALSE, pre |-> <<>>, ret |-> <<>>, aborted |-> FALSE,
     panic |-> FALSE, path |-> "none", result |-> FALSE, missing_count |-> 0]

\* BLSCache::new(cache_size) with cache_size >= 1
Init ==
    /\ capacity \in 1 .. MaxCap
    /\ cache = <<>>
    /\ last = NoCall
    /\ run = [on |-> TRUE, pairs |-> <<>>]

\* sequences of at most n elements of S
SeqUpTo(S, n) == UNION {[1 .. k -> S] : k \in 0 .. n}

\* the whole of get_pairings, called by the user of the cache
GetPairings(pks, msgs, force_cache) ==
    /\ last = NoCall
    /\ \E gp \in {get_pairings(cache, capacity, pks, msgs, force_cache)} :
          /\ cache' = gp.cache
          /\ last' = [op |-> "get_pairings", pks |-> pks, msgs |-> msgs,
                      sig |-> NoSig, force_cache |-> force_cache,
                      pre |-> cache, ret |-> gp.ret, aborted |-> gp.aborted,
                      panic |-> gp.panic, path |-> "none", result |-> FALSE,
                      missing_count |-> gp.missing_count]
    /\ run' = [on |-> FALSE, pairs |-> <<>>]
    /\ UNCHANGED capacity

\* the whole of aggregate_verify
AggregateVerify(pks, msgs, sig, force_cache) ==
    /\ last = NoCall
    /\ \E av \in {aggregate_verify(cache, capacity, pks, msgs, sig, force_cache)} :
          /\ cache' = av.cache
          /\ last' = [op |-> "aggregate_verify", pks |-> pks, msgs |-> msgs,
                      sig |-> sig, force_cache |-> force_cache, pre |-> cache,
                      ret |-> av.gp.ret, aborted |-> av.gp.aborted,
                      panic |-> av.panic, path |-> av.path,
                      result |-> av.result,
                      missing_count |-> av.gp.missing_count]
          /\ run' = IF /\ run.on
                       /\ force_cache
                       /\ Len(pks) = 1
                       /\ Len(msgs) = 1
                       /\ ~av.panic
                       /\ Len(run.pairs) <= capacity
                       /\ \A j \in DOMAIN run.pairs :
                              run.pairs[j] # <<pks[1], msgs[1]>>
                    THEN [on |-> TRUE,
                          pairs |-> Append(run.pairs, <<pks[1], msgs[1]>>)]
                    ELSE [on |-> FALSE, pairs |-> <<>>]
    /\ UNCHANGED capacity

\* the caller is done with the outcome of the last call (a returned value or
\* a caught panic); the cache stays as the call left it
Forget ==
    /\ last # NoCall
    /\ last' = NoCall
    /\ UNCHANGED <<capacity, cache, run>>

\* a call is made when the previous one is over; its arguments are any key and
\* message sequences (of equal length or not), any signature, either flag
CallGetPairings ==
    /\ last = NoCall
    /\ \E pks \in SeqUpTo(PkBytes, MaxBatch), msgs \in SeqUpTo(Msgs, MaxBatch),
          f \in BOOLEAN : GetPairings(pks, msgs, f)

CallAggregateVerify ==
    /\ last = NoCall
    /\ \E pks \in SeqUpTo(PkBytes, MaxBatch), msgs \in SeqUpTo(Msgs, MaxBatch),
          sig \in Sigs, f \in BOOLEAN : AggregateVerify(pks, msgs, sig, f)

Next ==
    \/ CallGetPairings
    \/ CallAggregateVerify
    \/ Forget

Spec == Init /\ [][Next]_vars

\* ------------------------------------------------------------ construction
\* the capacity of BLSCache::default() and of generator(None)
DefaultCacheSize == 50000

\* Option<usize>::None
NoneSize == -1

\* fault: a zero size is raised to one instead of failing the unwrap
new_min_one(cache_size) ==
    [panic |-> FALSE, cache |-> <<>>,
     capacity |-> IF cache_size = 0 THEN 1 ELSE cache_size]

\* BLSCache::new: LruCache::new(NonZeroUsize::new(cache_size).unwrap())
new(cache_size) ==
    IF cache_size = 0
    THEN [panic |-> TRUE, capacity |-> 0, cache |-> <<>>]
    ELSE [panic |-> FALSE, capacity |-> cache_size, cache |-> <<>>]

\* impl Default for BLSCache
default == new(DefaultCacheSize)

\* BLSCache::generator: cache_size.unwrap_or(50000)
BLSCache_generator(cache_size) ==
    new(IF cache_size = NoneSize THEN DefaultCacheSize ELSE cache_size)

\* before construction there is no cache (capacity 0 stands for none)
InitNew ==
    /\ capacity = 0
    /\ cache = <<>>
    /\ last = NoCall
    /\ run = [on |-> TRUE, pairs |-> <<>>]

\* one constructor call; a panicking one leaves no cache behind
Construct(ctor, cache_size, out) ==
    /\ capacity = 0
    /\ last = NoCall
    /\ capacity' = out.capacity
    /\ cache' = out.cache
    /\ last' = [op |-> ctor, cache_size |-> cache_size, panic |-> out.panic]
    /\ UNCHANGED run

New == \E n \in 0 .. MaxCap : Construct("new", n, new(n))

Default == Construct("default", NoneSize, default)

Generator ==
    \E n \in {NoneSize} \cup (0 .. MaxCap) :
        Construct("generator", n, BLSCache_generator(n))

\* construction, then the calls on the cache it made
NextNew ==
    \/ New
    \/ Default
    \/ Generator
    \/ (capacity > 0 /\ Next)

SpecNew == InitNew /\ [][NextNew]_vars

\* ------------------------------------------------------------- PublicKey
\* every 48-byte string of the model
AllPkBytes == {<<b1, b2>> : b1 \in {0, 64, 128, 192}, b2 \in 0 .. 5}

\* every Signature, in the prime-order subgroup or not
AllSigs == [s : Scalars, valid : BOOLEAN]

\* every PublicKey value that from_bytes can produce
AllKeys == {from_bytes(b) : b \in AllPkBytes} \ {NonePk}

\* fault: the identity is taken for a valid key
is_valid_or_inf(pk) == blst_p1_affine_is_inf(pk) \/ blst_p1_affine_in_g1(pk)

\* PublicKey::is_valid
is_valid(pk) == ~blst_p1_affine_is_inf(pk) /\ blst_p1_affine_in_g1(pk)

\* PublicKey::validate
validate(bytes) ==
    LET result == from_bytes(bytes)
    IN  IF ~result.some THEN NonePk
        ELSE IF is_valid(result) THEN result
        ELSE NonePk

\* Signature::is_valid
signature_is_valid(signature) == signature.valid

\* aug_scheme::prepend_message: the key's bytes, then the message
prepend_message(pk, message) == to_bytes(pk) \o message

\* blst_core_verify_pk_in_g1(pk, sig, true, msg, DST, ..) = BLST_SUCCESS
blst_core_verify_pk_in_g1(pk, signature, message) ==
    pair(hash_to_g2(message), pk) = pair(signature.s, generator)

\* fault: the call is rejected only when both checks fail
verify_both(pk, message, signature) ==
    IF ~is_valid(pk) /\ ~signature_is_valid(signature)
    THEN [result |-> FALSE, paired |-> FALSE]
    ELSE [result |-> blst_core_verify_pk_in_g1(pk, signature,
                                               prepend_message(pk, message)),
          paired |-> TRUE]

\* PublicKey::verify; paired tells whether the pairing equation was evaluated
verify(pk, message, signature) ==
    IF ~is_valid(pk) \/ ~signature_is_valid(signature)
    THEN [result |-> FALSE, paired |-> FALSE]
    ELSE [result |-> blst_core_verify_pk_in_g1(pk, signature,
                                               prepend_message(pk, message)),
          paired |-> TRUE]

Validate(bytes) ==
    /\ last' = [op |-> "validate", bytes |-> bytes, key |-> validate(bytes)]
    /\ UNCHANGED <<capacity, cache, run>>

FromBytes(bytes) ==
    /\ last' = [op |-> "from_bytes", bytes |-> bytes, key |-> from_bytes(bytes)]
    /\ UNCHANGED <<capacity, cache, run>>

Verify(pk, message, signature) ==
    /\ \E v \in {verify(pk, message, signature)} :
          last' = [op |-> "verify", key |-> pk, message |-> message,
                   sig |-> signature, result |-> v.result, paired |-> v.paired]
    /\ UNCHANGED <<capacity, cache, run>>

\* the PublicKey functions, called on any bytes, key, message and signature
NextKey ==
    \/ \E bytes \in AllPkBytes : Validate(bytes)
    \/ \E bytes \in AllPkBytes : FromBytes(bytes)
    \/ \E pk \in AllKeys, message \in Msgs, signature \in AllSigs :
            Verify(pk, message, signature)

SpecKey == Init /\ [][NextKey]_vars

\* get_pairings on batches of (key, message) pairs long enough for the scan
\* to stop before their end
CallLongBatch ==
    /\ last = NoCall
    /\ \E batch \in SeqUpTo(PkBytes \X Msgs, MaxScan), f \in BOOLEAN :
          GetPairings([i \in DOMAIN batch |-> batch[i][1]],
                      [i \in DOMAIN batch |-> batch[i][2]], f)

NextLong ==
    \/ CallLongBatch
    \/ Forget

SpecLong == Init /\ [][NextLong]_vars

\* ------------------------------------------------------ observation helpers
IsCall == last.op \in {"get_pairings", "aggregate_verify"}
IsVerify == last.op = "aggregate_verify"
EqualLength == Len(last.pks) = Len(last.msgs)

\* the entries of a cache, recency order forgotten
EntrySet(c) == {c[i] : i \in DOMAIN c}

\* the cache key of the i-th pair of the last call
KeyAt(i) == put_key(last.pks[i] \o last.msgs[i])

\* positions of the last call's batch whose pair was absent when it started
MissAt == {i \in 1 .. zip_len(last.pks, last.msgs) : ~contains(last.pre, KeyAt(i))}
HitAt == {i \in 1 .. zip_len(last.pks, last.msgs) : contains(last.pre, KeyAt(i))}

\* the outcome of the stateless batch verifier on the last call's arguments
Stateless == fallback(last.pks, last.msgs, last.sig)
Outcome == [panic |-> last.panic, result |-> last.result]

\* ------------------------------------------------------------------ claims

\* C1: a cache constructed with capacity N >= 1 never holds more than N
\* entries, whatever get_pairings and aggregate_verify calls were made.
C1_CapacityBound == Len(cache) <= capacity

\* C1 witness: a returning call whose batch had more distinct missing pairs
\* than the capacity left the cache full.
C1_Witness ==
    /\ IsCall /\ ~last.panic /\ ~last.aborted
    /\ Cardinality({KeyAt(i) : i \in MissAt}) > capacity
    /\ Len(cache) = capacity

\* C2: on equal-length batches aggregate_verify ends as the stateless batch
\* verifier does on the same keys, messages and signature, in every cache
\* state and on either path (both fault on key bytes that do not parse).
C2_SameAsStateless == (IsVerify /\ EqualLength) => Outcome = Stateless

\* C2 witness: a verification answered TRUE from the cached product, one of
\* its pairings read from the cache and one computed.
C2_Witness ==
    /\ IsVerify /\ EqualLength /\ last.path = "cached"
    /\ HitAt # {} /\ MissAt # {}
    /\ last.result

\* C3: from an empty cache, aggregate_verify with force_cache = TRUE ends as
\* the stateless batch verifier does on the same inputs.
C3_EmptyCacheForced ==
    (IsVerify /\ EqualLength /\ last.pre = <<>> /\ last.force_cache)
        => Outcome = Stateless

\* C3 witness: a forced verification of two pairs from the empty cache that
\* returned TRUE and populated the cache.
C3_Witness ==
    /\ IsVerify /\ EqualLength /\ last.pre = <<>> /\ last.force_cache
    /\ Len(last.pks) = 2 /\ last.result /\ cache # <<>>

\* C4 (as claimed): with force_cache = FALSE and strictly more than half of
\* the pairs missing from the cache, a returning call leaves the entry count
\* unchanged and the answer comes from the stateless fallback.
C4_AbortOnMisses ==
    (/\ IsVerify /\ EqualLength /\ ~last.force_cache /\ ~last.panic
     /\ 2 * Cardinality(MissAt) > Len(last.pks))
        => (Len(cache) = Len(last.pre) /\ last.path = "fallback")

\* C5: capacity N, N+1 returning single-pair forced verifications of N+1
\* distinct pairs: exactly N entries, the first pair's entry gone, the N
\* later pairs' entries present.
C5_LruEviction ==
    (run.on /\ Len(run.pairs) = capacity + 1)
        => /\ Len(cache) = capacity
           /\ ~contains(cache, put_key(run.pairs[1][1] \o run.pairs[1][2]))
           /\ \A j \in 2 .. capacity + 1 :
                  contains(cache, put_key(run.pairs[j][1] \o run.pairs[j][2]))

\* C5 witness: such a run of N+1 calls has happened on a cache of capacity
\* above one.
C5_Witness == run.on /\ Len(run.pairs) = capacity + 1 /\ capacity > 1

\* the last call was a returning forced verification of one absent pair
SingleForcedMiss ==
    /\ IsVerify /\ last.force_cache /\ ~last.panic
    /\ Len(last.pks) = 1 /\ Len(last.msgs) = 1
    /\ MissAt = {1}

\* the identical call made again on the cache as it is now
Repeat ==
    aggregate_verify(cache, capacity, last.pks, last.msgs, last.sig,
                     last.force_cache)

RepeatIsFullHit ==
    /\ ~Repeat.panic
    /\ Repeat.result = last.result
    /\ Len(Repeat.cache) = Len(cache)

\* C6 (as claimed): a forced verification of a single absent pair increases
\* the entry count by exactly 1, and the identical call repeated returns the
\* same result and leaves the count unchanged.
C6_CountPlusOne ==
    SingleForcedMiss => (Len(cache) = Len(last.pre) + 1 /\ RepeatIsFullHit)

\* C6 (amended): a returning forced verification of a single absent pair
\* increases the entry count by exactly 1 when the cache held fewer than N
\* entries and leaves it at N when the cache was full (the least recently
\* used entry is evicted); the identical call repeated returns the same
\* result and leaves the count unchanged.
C6_Population ==
    SingleForcedMiss
        => /\ Len(last.pre) < capacity => Len(cache) = Len(last.pre) + 1
           /\ Len(last.pre) = capacity => Len(cache) = capacity
           /\ contains(cache, KeyAt(1))
           /\ RepeatIsFullHit

\* C6 witness: the single absent pair was verified on a full cache.
C6_Witness == SingleForcedMiss /\ Len(last.pre) = capacity

\* C7: when aggregate_verify takes the fallback path, the set of cache
\* entries (keys and values) after the call is the set before the call.
C7_FallbackNoWrites ==
    (IsVerify /\ last.path = "fallback")
        => EntrySet(cache) = EntrySet(last.pre)

\* C7 witness: a fallback after a heuristic abort whose scan changed the
\* recency order of the cache.
C7_Witness ==
    /\ IsVerify /\ last.path = "fallback" /\ last.aborted
    /\ cache # last.pre

\* C8: on equal-length input a non-empty get_pairings result has the length
\* of the input and its i-th element is the pairing of the i-th pair.
C8_ResultInInputOrder ==
    (IsCall /\ EqualLength /\ ~last.panic /\ last.ret # <<>>)
        => /\ Len(last.ret) = Len(last.pks)
           /\ \A i \in DOMAIN last.ret :
                  last.ret[i] = pair(hash_to_g2(last.pks[i] \o last.msgs[i]),
                                     from_bytes(last.pks[i]))

\* C8 witness: a returned list with a computed pairing before a cached one,
\* the two different, where a pair hit in the scan was evicted by an
\* insertion of the same call.
C8_Witness ==
    /\ IsCall /\ EqualLength /\ ~last.panic /\ last.ret # <<>>
    /\ \E i \in HitAt : ~contains(cache, KeyAt(i))
    /\ \E i \in MissAt, j \in HitAt : i < j /\ last.ret[i] # last.ret[j]

\* C9 (as claimed): an aggregate_verify call whose signature fails validity
\* computes no pairing and adds no entry to the cache.
C9_InvalidSigNoEntry ==
    (IsVerify /\ ~last.sig.valid) => EntrySet(cache) \subseteq EntrySet(last.pre)

\* C10 (as claimed): a call with a key that from_bytes rejects ends with a
\* definite rejection, not a fault, and leaves the cache as it was.
C10_BadKeyRejected ==
    (/\ IsCall
     /\ \E i \in 1 .. zip_len(last.pks, last.msgs) : ~from_bytes(last.pks[i]).some)
        => (~last.panic /\ EntrySet(cache) = EntrySet(last.pre))

\* C11 (as claimed): a call whose key and message sequences differ in length
\* is a caller error: it returns neither a pairing list nor a boolean
\* computed over the batch truncated to the shorter sequence.
C11_LengthMismatchFails == (IsCall /\ ~EqualLength) => last.panic

\* the last call was made on no pairs at all
EmptyBatch == zip_len(last.pks, last.msgs) = 0

\* C12: on an empty batch, in any cache state and with either flag,
\* get_pairings returns the empty list, aggregate_verify returns what the
\* stateless verifier returns for the signature and no pairs, and the cache
\* is unchanged; get_pairings returns the empty list only on an empty batch
\* or a heuristic abort with force_cache = FALSE; the 'no pairings' branch at
\* the end of aggregate_verify is never taken.
C12_EmptyBatch ==
    /\ (IsCall /\ EmptyBatch)
          => /\ ~last.panic /\ last.ret = <<>> /\ cache = last.pre
             /\ IsVerify => /\ last.path = "fallback"
                            /\ last.result = agg_ver(last.sig, <<>>)
    /\ (IsCall /\ ~last.panic /\ last.ret = <<>>)
          => (EmptyBatch \/ (last.aborted /\ ~last.force_cache))
    /\ last.path # "empty"

\* C12 witness: an empty batch verified TRUE against the identity signature
\* on a cache that holds entries.
C12_Witness ==
    /\ IsVerify /\ EmptyBatch /\ EqualLength
    /\ last.pre # <<>> /\ last.result

IsCtor == last.op \in {"new", "default", "generator"}

\* the capacity a constructor call asked for
Requested ==
    IF last.op = "default" \/ last.cache_size = NoneSize
    THEN DefaultCacheSize ELSE last.cache_size

\* C13: constructing with capacity 0 panics and yields no cache; any capacity
\* N >= 1 yields an empty cache of capacity N; the default construction
\* yields an empty cache of capacity 50,000.
C13_Construction ==
    /\ IsCtor =>
          /\ last.panic <=> Requested = 0
          /\ last.panic => capacity = 0
          /\ ~last.panic => (capacity = Requested /\ capacity >= 1 /\ cache = <<>>)
          /\ last.op = "default" => (~last.panic /\ capacity = 50000)
    /\ capacity = 0 => (cache = <<>> /\ ~IsCall)

\* C13 witness: new(0) has panicked and there is no cache.
C13_Witness == last.op = "new" /\ last.cache_size = 0 /\ last.panic

\* C14: validate returns a key if and only if the top bit of byte 0 is set,
\* decompression succeeds, and the point is neither the identity nor outside
\* the prime-order subgroup; the key returned is the decompressed point.
C14_Validate ==
    last.op = "validate" =>
        LET marker == (last.bytes[1] \div 128) % 2 = 1
            point == blst_p1_uncompress(last.bytes)
        IN  /\ last.key.some <=>
                  /\ marker
                  /\ point.some
                  /\ ~blst_p1_affine_is_inf(point)
                  /\ blst_p1_affine_in_g1(point)
            /\ last.key.some => last.key = point

\* C14 witness: the encoding of the identity, marker set and decompressed,
\* was rejected by validate.
C14_Witness ==
    /\ last.op = "validate"
    /\ last.bytes = <<192, 0>>
    /\ ~last.key.some

\* C15: verify returns false, the pairing equation not evaluated, whenever
\* the key fails is_valid or the signature fails its validity check.
C15_VerifyRejects ==
    (/\ last.op = "verify"
     /\ \/ blst_p1_affine_is_inf(last.key)
        \/ ~blst_p1_affine_in_g1(last.key)
        \/ ~last.sig.valid)
        => (~last.result /\ ~last.paired)

\* C15 witness: a valid key and an invalid signature that would satisfy the
\* pairing equation, rejected.
C15_Witness ==
    /\ last.op = "verify"
    /\ is_valid(last.key) /\ ~last.sig.valid
    /\ blst_core_verify_pk_in_g1(last.key, last.sig,
                                 prepend_message(last.key, last.message))
    /\ ~last.result

\* the cache keys of the pairs that were absent when the last call started
MissKeys == {KeyAt(i) : i \in MissAt}

\* the pairing of the i-th pair of the last call
PairingAt(i) ==
    pair(hash_to_g2(last.pks[i] \o last.msgs[i]), from_bytes(last.pks[i]))

Scanned ==
    IF last.aborted
    THEN CHOOSE p \in 1 .. zip_len(last.pks, last.msgs) :
            /\ p \in HitAt
            /\ Cardinality({i \in HitAt : i <= p}) = last.missing_count
    ELSE zip_len(last.pks, last.msgs)

\* the positions whose pair the last call inserted: none after an abort, the
\* missing ones otherwise, up to the first whose key bytes do not parse
Filled ==
    IF last.aborted THEN {}
    ELSE {i \in MissAt :
            \A j \in MissAt : j <= i => from_bytes(last.pks[j]).some}

\* the positions of the hits of the scan, up to where it stopped
ScanHits == {j \in HitAt : j <= Scanned}

\* the keys the last call touched, by a hit of its scan or by an insertion
Touched == {KeyAt(i) : i \in ScanHits \cup Filled}

Max(S) == CHOOSE x \in S : \A y \in S : y <= x

\* when a key was last hit or inserted, given the positions of the scan's
\* hits and of the insertions: the scan comes before the insertions, both go
\* in batch order, and an entry the last call did not touch keeps the place
\* earlier calls left it in (the front of the cache being the latest)
LastTouch(h, hits, filled) ==
    LET put_at == {i \in filled : KeyAt(i) = h}
        hit_at == {i \in hits : KeyAt(i) = h}
    IN  IF put_at # {} THEN zip_len(last.pks, last.msgs) + Max(put_at)
        ELSE IF hit_at # {} THEN Max(hit_at)
        ELSE 0 - index_of(last.pre, h, 1)

\* the keys that were in the cache at some point of the last call
Known == {last.pre[i].k : i \in DOMAIN last.pre} \cup Touched

\* C17: after any call the cache is in the order of last hit-or-insert, latest
\* first, for both values of force_cache, after an abort (the pairs behind the
\* abort position untouched) and after insertions; an entry that was evicted
\* was hit or inserted earlier than every entry that was kept.
C17_RecencyOrder ==
    IsCall
        => LET hits == ScanHits
               filled == Filled
               touch == {<<h, LastTouch(h, hits, filled)>> : h \in Known}
               at(h) == (CHOOSE p \in touch : p[1] = h)[2]
           IN  /\ Len(cache) = Min(capacity, Cardinality(touch))
               /\ \A j \in DOMAIN cache : \E p \in touch : p[1] = cache[j].k
               /\ \A i, j \in DOMAIN cache :
                      i < j => at(cache[i].k) > at(cache[j].k)
               /\ \A p \in touch :
                      ~contains(cache, p[1])
                          => \A j \in DOMAIN cache : p[2] < at(cache[j].k)

\* on a full cache of two entries the scan hit the older entry and an
\* insertion of the same call then evicted the other one
C17_EvictionSeen ==
    /\ IsCall /\ ~last.panic /\ ~last.aborted
    /\ Len(last.pre) = 2 /\ capacity = 2
    /\ \E i \in HitAt : KeyAt(i) = last.pre[2].k
    /\ MissAt # {}
    /\ contains(cache, last.pre[2].k)
    /\ ~contains(cache, last.pre[1].k)

\* C17 witness: an unforced call of three pairs aborted at its second pair;
\* the entry hit there went to the front, and the entry of the third pair,
\* which was in front before the call, was not touched.
C17_Witness ==
    /\ IsCall /\ last.aborted /\ Len(last.pre) = 2
    /\ Scanned = 2 /\ zip_len(last.pks, last.msgs) = 3
    /\ KeyAt(3) = last.pre[1].k
    /\ KeyAt(2) = last.pre[2].k
    /\ cache[1].k = last.pre[2].k

\* the entry that get_pairings derives from the pair (pk, msg)
EntryOf(pk, msg) ==
    [k |-> put_key(pk \o msg),
     v |-> pair(hash_to_g2(pk \o msg), from_bytes(pk))]

\* what the scan of a later call reads for the pair (pk, msg) alone
Lookup(pk, msg) == scan(cache, <<pk>>, <<msg>>, TRUE, 1, 0, <<>>).pairings[1]

\* C18: every entry of the cache has as key the SHA-256 of key bytes ||
\* message bytes of a pair with a key that parses and as value the pairing of
\* that pair; an entry that was not there before the last call is that of a
\* pair the call presented; the scan's digest of a pair is the digest it is
\* inserted under, and the scan of a following call reads the pairing of a
\* pair the last call inserted, unless the entry has been evicted since.
C18_EntriesDerived ==
    /\ \A e \in EntrySet(cache) :
           \E pk \in PkBytes, msg \in Msgs :
               from_bytes(pk).some /\ e = EntryOf(pk, msg)
    /\ IsCall =>
           /\ \A e \in EntrySet(cache) \ EntrySet(last.pre) :
                  \E i \in Filled : e = EntryOf(last.pks[i], last.msgs[i])
           /\ \A i \in 1 .. zip_len(last.pks, last.msgs) :
                  scan_key(last.pks[i], last.msgs[i]) = KeyAt(i)
           /\ \A i \in Filled :
                  \/ ~contains(cache, KeyAt(i))
                  \/ Lookup(last.pks[i], last.msgs[i]) = PairingAt(i)

\* C18 witness: a call inserted two pairs into a cache of capacity one; the
\* second is in the cache and a later scan reads it, the first was evicted.
C18_Witness ==
    /\ IsCall /\ ~last.panic /\ capacity = 1
    /\ Filled = {1, 2} /\ KeyAt(1) # KeyAt(2)
    /\ cache = <<EntryOf(last.pks[2], last.msgs[2])>>
    /\ Lookup(last.pks[2], last.msgs[2]) = PairingAt(2)
    /\ Lookup(last.pks[1], last.msgs[1]) = NoneGT

\* the cache keys of all the pairs of the last call's batch
BatchKeys == {KeyAt(i) : i \in 1 .. zip_len(last.pks, last.msgs)}

\* C19: when get_pairings returns from a call with force_cache = TRUE on a
\* batch of no more distinct pairs than the capacity, every pair of the batch
\* is in the cache with its pairing: no entry the call hit or inserted was
\* evicted by an insertion of the same call.
C19_ForcedBatchCached ==
    (/\ IsCall /\ last.force_cache /\ ~last.panic
     /\ Cardinality(BatchKeys) <= capacity)
        => \A i \in 1 .. zip_len(last.pks, last.msgs) :
               lru_peek(cache, KeyAt(i)) = PairingAt(i)

\* C19 witness: a forced call on a full cache hit its least recently used
\* entry and inserted a missing pair, the batch filling the whole capacity.
C19_Witness ==
    /\ IsCall /\ last.force_cache /\ ~last.panic
    /\ capacity > 1 /\ Len(last.pre) = capacity
    /\ Cardinality(BatchKeys) = capacity
    /\ MissAt # {}
    /\ \E i \in HitAt : KeyAt(i) = last.pre[capacity].k
    /\ BatchKeys = {cache[j].k : j \in DOMAIN cache}

\* C20: after a get_pairings call that returns without aborting, the cache
\* holds min(capacity, entries before + distinct pairs of the batch that were
\* absent when the call started) entries; a pair that was absent and occurs
\* several times in the batch adds one entry, and the result has one element,
\* the pairing of the pair, for each occurrence.
C20_EntryCount ==
    (IsCall /\ ~last.aborted /\ ~last.panic)
        => /\ Len(cache) =
                  Min(capacity, Len(last.pre) + Cardinality(MissKeys))
           /\ Len(last.ret) = zip_len(last.pks, last.msgs)
           /\ \A i \in MissAt : last.ret[i] = PairingAt(i)
           /\ \A h \in MissKeys :
                  Cardinality({j \in DOMAIN cache : cache[j].k = h}) <= 1

\* C20 witness: a batch of twice the same absent pair returned two equal
\* pairings and added one entry to a cache that had room for two.
C20_Witness ==
    /\ IsCall /\ ~last.aborted /\ ~last.panic
    /\ MissAt = {1, 2} /\ KeyAt(1) = KeyAt(2)
    /\ Len(last.pre) + 2 <= capacity
    /\ Len(cache) = Len(last.pre) + 1
    /\ Len(last.ret) = 2 /\ last.ret[1] = last.ret[2]

\* the last call made again from the cache it found, with another signature
WithSig(sig2) ==
    aggregate_verify(last.pre, capacity, last.pks, last.msgs, sig2,
                     last.force_cache)

\* C21: the cache after an aggregate_verify call (entries and recency order)
\* is the one get_pairings leaves from the same cache state, keys, messages
\* and force_cache, and the same call with any other signature, whatever it
\* returns, ends in the same cache.
C21_CacheIgnoresSignature ==
    IsVerify
        => /\ cache = get_pairings(last.pre, capacity, last.pks, last.msgs,
                                   last.force_cache).cache
           /\ \A sig2 \in Sigs \ {last.sig} : WithSig(sig2).cache = cache

\* C21 witness: a verification on the cached path returned TRUE after it
\* reordered the cache and inserted a pair; with another signature the same
\* call returns FALSE.
C21_Witness ==
    /\ IsVerify /\ last.path = "cached" /\ last.result
    /\ HitAt # {} /\ MissAt # {}
    /\ cache # last.pre
    /\ \E sig2 \in Sigs : ~WithSig(sig2).panic /\ ~WithSig(sig2).result

====
